---- MODULE Spec2Model ----
(***************************************************************************)
(* Model of the sedona-bench harness: six scripts (q2, q4, q8, q9, q10,    *)
(* q11), each an argparse entry point and one run function that drives a   *)
(* sedonadb connection through configuration, external-table registration, *)
(* view construction, plan inspection and a timed loop.                    *)
(*                                                                         *)
(* Python values are encoded as follows.  An optional value is a sequence  *)
(* of length at most one: None is <<>>, the value v is <<v>>.  A statement *)
(* sent to the engine is the sequence of its tokens, f-string holes filled *)
(* with the text Python's str() gives.  Time is counted in whole seconds;  *)
(* only calls into the engine let time pass: ctx.sql, which hands a        *)
(* statement over, and the show of the plan, which executes nothing, take  *)
(* one second; result.show, which makes the engine produce the rows of the *)
(* query, takes between one and MaxDur seconds.                            *)
(***************************************************************************)
EXTENDS Integers, Sequences, FiniteSets, TLC

VARIABLES q, entry, args, p, pc, idx, i, log, clock, start_time, iter_start,
          dur_total, elapsed, out, err, tables, result

\* the harness
hvars == <<q, entry, args, p, pc, idx, i, log, clock, start_time, iter_start,
           dur_total, elapsed, out, err>>

\* the rows behind the views and the rows the timed query returns
dvars == <<tables, result>>

vars == <<hvars, dvars>>

(* ------------------------------ bounds --------------------------------- *)
MaxRepeat == 2
MaxPartitions == 1
MaxLimit == 1
MaxDur == 2
MaxRows == 2

(* --------------------------- Python values ----------------------------- *)
None == <<>>

Some(v) == <<v>>

IsNone(x) == x = None

Val(x) == x[1]

\* bool(x) for an optional integer: None and 0 are falsy
Truthy(x) == x # None /\ Val(x) # 0

\* str(x) of an optional integer, as an f-string hole prints it
StrInt(x) == IF IsNone(x) THEN "None" ELSE ToString(Val(x))

\* str(x) of an optional string
StrStr(x) == IF IsNone(x) THEN "None" ELSE Val(x)

ModeStrings == {"gpu", "cpu", "GPU"}

\* str.lower() on the mode strings of the model
Lower(s) == CASE s = "GPU" -> "gpu" [] s = "gpu" -> "gpu" [] OTHER -> "cpu"

\* str.upper() on the mode strings of the model
Upper(s) == CASE s = "GPU" -> "GPU" [] s = "gpu" -> "GPU" [] OTHER -> "CPU"

(* --------------------------- query catalog ----------------------------- *)
Queries == {"Q2", "Q4", "Q8", "Q9", "Q10", "Q11"}

\* the roles whose table and view a script creates, in the order of its code
Roles(qq) ==
    CASE qq = "Q8" -> <<"building", "trip">>
      [] qq = "Q9" -> <<"building">>
      [] OTHER     -> <<"zone", "trip">>

RoleSet(qq) == {Roles(qq)[k] : k \in 1..Len(Roles(qq))}

HasTopN(qq) == qq = "Q4"

DefaultTopN == 1000

\* rows shown by result.show(n); Q11 calls show() without a count
PreviewRows(qq) ==
    CASE qq = "Q2"  -> "3"
      [] qq = "Q11" -> ""
      [] OTHER      -> "20"

TableName(role) == role \o "_table"

ViewName(role) == role \o "_geom"

\* the select list of the view a script builds for a role
Projection(qq, role) ==
    CASE qq = "Q2" /\ role = "zone" ->
           "z_name, ST_GeomFromWKB(z_boundary) as geom"
      [] qq = "Q2" /\ role = "trip" ->
           "ST_GeomFromWKB(t_pickuploc) as geom"
      [] qq = "Q4" /\ role = "zone" ->
           "z_zonekey, z_name, ST_GeomFromWKB(z_boundary) as geom"
      [] qq = "Q4" /\ role = "trip" ->
           "t_tripkey, t_tip, ST_GeomFromWKB(t_pickuploc) as geom"
      [] qq = "Q8" /\ role = "building" ->
           "b_buildingkey, b_name, ST_GeomFromWKB(b_boundary) as geom"
      [] qq = "Q8" /\ role = "trip" ->
           "ST_GeomFromWKB(t_pickuploc) as geom"
      [] qq = "Q9" /\ role = "building" ->
           "b_buildingkey, ST_GeomFromWKB(b_boundary) as geom"
      [] qq = "Q10" /\ role = "zone" ->
           "z_zonekey, z_name, ST_GeomFromWKB(z_boundary) as geom"
      [] qq = "Q10" /\ role = "trip" ->
           "t_tripkey, t_pickuptime, t_dropofftime, t_distance, ST_GeomFromWKB(t_pickuploc) as geom"
      [] qq = "Q11" /\ role = "zone" ->
           "z_zonekey, ST_GeomFromWKB(z_boundary) as geom"
      [] qq = "Q11" /\ role = "trip" ->
           "ST_GeomFromWKB(t_pickuploc) as pickup_geom, ST_GeomFromWKB(t_dropoffloc) as dropoff_geom"
      [] OTHER -> ""

(* ------------------- directives sent to the engine --------------------- *)
\* variant: the mode compared without lower-casing it
ModeDirectiveNoLower(mode) ==
    <<"SET", "sedona.spatial_join.gpu.enable", "=",
      IF mode = "gpu" THEN "true" ELSE "false">>

\* if mode.lower() == 'gpu': SET ... = true  else: SET ... = false
ModeDirective(mode) ==
    <<"SET", "sedona.spatial_join.gpu.enable", "=",
      IF Lower(mode) = "gpu" THEN "true" ELSE "false">>

\* f"SET datafusion.execution.target_partitions = {target_partitions}"
PartitionsDirective(tp) ==
    <<"SET", "datafusion.execution.target_partitions", "=", StrInt(tp)>>

\* LOCATION '{data_prefix}/<role>/'
Location(prefix, role) == StrStr(prefix) \o "/" \o role \o "/"

TableDirective(prefix, role) ==
    <<"CREATE EXTERNAL TABLE", TableName(role), "STORED AS PARQUET",
      "LOCATION", Location(prefix, role)>>

\* variant: an absent limit written out as a limit of zero rows
LimitClauseZero(limit) ==
    IF IsNone(limit) THEN "LIMIT 0" ELSE "LIMIT " \o StrInt(limit)

\* f"LIMIT {limit}" if limit else ""
LimitClause(limit) ==
    IF Truthy(limit) THEN "LIMIT " \o StrInt(limit) ELSE ""

ViewDirective(qq, role, limit) ==
    <<"CREATE OR REPLACE VIEW", ViewName(role), "AS",
      "SELECT " \o Projection(qq, role),
      "FROM " \o TableName(role),
      LimitClause(limit)>>

\* the limit clause a view directive ends with ("" when there is none)
ClauseOf(directive) == directive[Len(directive)]

\* The engine's reading of a view directive: the number of rows of the view
\* over a source of n rows.  Without a LIMIT clause the view has every row
\* of the source, with LIMIT k it has the first k of them.
ViewRows(directive, n) ==
    LET cut == {k \in 0..n : ClauseOf(directive) = "LIMIT " \o ToString(k)}
    IN  IF cut = {} THEN n ELSE CHOOSE k \in cut : TRUE

(* ----------------------- plan and exec queries ------------------------- *)
\* The statement a script times, clause by clause (SQL text with runs of
\* white space collapsed; Q4 fills {top_n} in).
ExecQuery(qq, top_n) ==
    CASE qq = "Q2" ->
           <<"SELECT COUNT(*) AS trip_count_in_county",
             "FROM zone_geom z JOIN trip_geom t",
             "ON ST_Intersects(z.geom, t.geom)">>
      [] qq = "Q4" ->
           <<"SELECT z.z_zonekey, z.z_name, COUNT(*) AS trip_count",
             "FROM zone_geom z JOIN (",
             "SELECT t.geom FROM trip_geom t",
             "ORDER BY t.t_tip DESC, t.t_tripkey ASC",
             "LIMIT " \o StrInt(top_n),
             ") top_trips ON ST_Within(top_trips.geom, z.geom)",
             "GROUP BY z.z_zonekey, z.z_name",
             "ORDER BY trip_count DESC, z.z_zonekey ASC">>
      [] qq = "Q8" ->
           <<"SELECT b.b_buildingkey, b.b_name, COUNT(*) AS nearby_pickup_count",
             "FROM trip_geom t JOIN building_geom b",
             "ON ST_Within(t.geom, b.geom)",
             "GROUP BY b.b_buildingkey, b.b_name",
             "ORDER BY nearby_pickup_count DESC, b.b_buildingkey ASC">>
      [] qq = "Q9" ->
           <<"WITH b1 AS (SELECT b_buildingkey AS id, geom FROM building_geom),",
             "b2 AS (SELECT b_buildingkey AS id, geom FROM building_geom),",
             "pairs AS (SELECT b1.id AS building_1, b2.id AS building_2, ST_Area(b1.geom) AS area1, ST_Area(b2.geom) AS area2, ST_Area(ST_Intersection(b1.geom, b2.geom)) AS overlap_area",
             "FROM b1 JOIN b2 ON b1.id < b2.id AND ST_Intersects(b1.geom, b2.geom))",
             "SELECT building_1, building_2, area1, area2, overlap_area,",
             "CASE WHEN (area1 + area2 - overlap_area) = 0 THEN 1.0 ELSE overlap_area / (area1 + area2 - overlap_area) END AS iou",
             "FROM pairs",
             "ORDER BY iou DESC, building_1 ASC, building_2 ASC">>
      [] qq = "Q10" ->
           <<"SELECT z.z_zonekey, z.z_name AS pickup_zone, AVG(t.t_dropofftime - t.t_pickuptime) AS avg_duration, AVG(t.t_distance) AS avg_distance, COUNT(t.t_tripkey) AS num_trips",
             "FROM zone_geom z LEFT JOIN trip_geom t",
             "ON ST_Within(t.geom, z.geom)",
             "GROUP BY z.z_zonekey, z.z_name",
             "ORDER BY avg_duration DESC NULLS LAST, z.z_zonekey ASC">>
      [] OTHER ->
           <<"SELECT COUNT(*) AS cross_zone_trip_count",
             "FROM trip_geom t",
             "JOIN zone_geom pickup_zone ON ST_Within(t.pickup_geom, pickup_zone.geom)",
             "JOIN zone_geom dropoff_zone ON ST_Within(t.dropoff_geom, dropoff_zone.geom)",
             "WHERE pickup_zone.z_zonekey != dropoff_zone.z_zonekey">>

\* The statement a script explains before the timed loop (the trailing SQL
\* comment of q2.py's plan text is not part of the statement).
PlanQuery(qq, top_n) ==
    <<"EXPLAIN">> \o
    CASE qq = "Q2" ->
           <<"SELECT COUNT(*)",
             "FROM zone_geom z JOIN trip_geom t",
             "ON ST_Intersects(z.geom, t.geom)">>
      [] qq = "Q4" ->
           <<"SELECT z.z_zonekey, z.z_name, COUNT(*) AS trip_count",
             "FROM zone_geom z JOIN (",
             "SELECT t.geom FROM trip_geom t",
             "ORDER BY t.t_tip DESC, t.t_tripkey ASC",
             "LIMIT " \o StrInt(top_n),
             ") top_trips ON ST_Within(top_trips.geom, z.geom)",
             "GROUP BY z.z_zonekey, z.z_name",
             "ORDER BY trip_count DESC, z.z_zonekey ASC">>
      [] qq = "Q8" ->
           <<"SELECT b.b_buildingkey, b.b_name, COUNT(*) AS nearby_pickup_count",
             "FROM trip_geom t JOIN building_geom b",
             "ON ST_Within(t.geom, b.geom)",
             "GROUP BY b.b_buildingkey, b.b_name",
             "ORDER BY nearby_pickup_count DESC, b.b_buildingkey ASC">>
      [] qq = "Q9" ->
           <<"WITH b1 AS (SELECT b_buildingkey AS id, geom FROM building_geom),",
             "b2 AS (SELECT b_buildingkey AS id, geom FROM building_geom),",
             "pairs AS (SELECT b1.id AS building_1, b2.id AS building_2, ST_Area(b1.geom) AS area1, ST_Area(b2.geom) AS area2, ST_Area(ST_Intersection(b1.geom, b2.geom)) AS overlap_area",
             "FROM b1 JOIN b2 ON b1.id < b2.id AND ST_Intersects(b1.geom, b2.geom))",
             "SELECT building_1, building_2, area1, area2, overlap_area,",
             "CASE WHEN (area1 + area2 - overlap_area) = 0 THEN 1.0 ELSE overlap_area / (area1 + area2 - overlap_area) END AS iou",
             "FROM pairs",
             "ORDER BY iou DESC, building_1 ASC, building_2 ASC">>
      [] qq = "Q10" ->
           <<"SELECT z.z_zonekey, z.z_name AS pickup_zone, AVG(t.t_dropofftime - t.t_pickuptime) AS avg_duration, AVG(t.t_distance) AS avg_distance, COUNT(t.t_tripkey) AS num_trips",
             "FROM zone_geom z LEFT JOIN trip_geom t",
             "ON ST_Within(t.geom, z.geom)",
             "GROUP BY z.z_zonekey, z.z_name",
             "ORDER BY avg_duration DESC NULLS LAST, z.z_zonekey ASC">>
      [] OTHER ->
           <<"SELECT COUNT(*) AS cross_zone_trip_count",
             "FROM trip_geom t",
             "JOIN zone_geom pickup_zone ON ST_Within(t.pickup_geom, pickup_zone.geom)",
             "JOIN zone_geom dropoff_zone ON ST_Within(t.dropoff_geom, dropoff_zone.geom)",
             "WHERE pickup_zone.z_zonekey != dropoff_zone.z_zonekey">>

\* plan.show() and result.show(n)
ShowPlanCall == <<"show">>

ShowResultCall(qq) == <<"show", PreviewRows(qq)>>

(* ------------------- entry point and parameter binding ----------------- *)
DefaultRepeat == 5

LimitParam(role) == role \o "_limit"

\* the parameter list of a run function, in declaration order
ParamNames(qq) ==
    <<"data_prefix", "mode", "repeat", "target_partitions">>
    \o [k \in 1..Len(Roles(qq)) |-> LimitParam(Roles(qq)[k])]
    \o (IF HasTopN(qq) THEN <<"top_n">> ELSE <<>>)

\* the default value of a parameter of a run function
Default(name) ==
    CASE name = "mode"   -> "gpu"
      [] name = "repeat" -> Some(DefaultRepeat)
      [] name = "top_n"  -> Some(DefaultTopN)
      [] OTHER           -> None

\* the options argparse gives a script (args.<name>)
OptionNames(qq) ==
    {"data_prefix", "mode", "repeat", "partitions"}
    \cup {LimitParam(r) : r \in RoleSet(qq)}
    \cup (IF HasTopN(qq) THEN {"top_n"} ELSE {})

\* the positional arguments of the call in the __main__ block of a script
CallArgs(qq, a) ==
    IF qq = "Q8"
    THEN <<a["data_prefix"], a["mode"], a["partitions"],
           a["building_limit"], a["trip_limit"]>>
    ELSE <<a["data_prefix"], a["mode"], a["repeat"], a["partitions"]>>
         \o [k \in 1..Len(Roles(qq)) |-> a[LimitParam(Roles(qq)[k])]]
         \o (IF HasTopN(qq) THEN <<a["top_n"]>> ELSE <<>>)

\* Python's positional binding: the k-th value goes to the k-th parameter,
\* parameters beyond the values take their defaults
Bind(qq, values) ==
    LET names == ParamNames(qq)
        pos(n) == CHOOSE k \in 1..Len(names) : names[k] = n
    IN  [n \in {names[k] : k \in 1..Len(names)} |->
            IF pos(n) <= Len(values) THEN values[pos(n)] ELSE Default(n)]

TopN(qq, pp) == IF HasTopN(qq) THEN pp["top_n"] ELSE None

(* --------------------------- input domains ----------------------------- *)
Prefixes == {None, Some("sf1")}

CliModes == {"gpu", "cpu"}

\* A direct call is modelled where it differs from a command-line run: the
\* mode in a letter case argparse's choices reject, the data directory named.
DirectPrefixes == {Some("sf1")}

DirectModes == ModeStrings \ CliModes


MinRepeat == 0 - 1

RepeatValues == {Some(n) : n \in MinRepeat..MaxRepeat}

PartitionValues == {None} \cup {Some(n) : n \in 1..MaxPartitions}

LimitValues == {None} \cup {Some(n) : n \in 0..MaxLimit}

TopNValues == {Some(1), Some(DefaultTopN)}

\* position of a role in the role list of a script
RolePos(qq, role) == CHOOSE k \in 1..Len(Roles(qq)) : Roles(qq)[k] = role

\* the role a limit option or limit parameter belongs to
RoleOfLimit(qq, name) == CHOOSE r \in RoleSet(qq) : LimitParam(r) = name

\* the namespace parse_args() returns for one command line
MkArgs(qq, dp, m, r, np, ls, tn) ==
    [n \in OptionNames(qq) |->
        CASE n = "data_prefix" -> dp
          [] n = "mode"        -> m
          [] n = "repeat"      -> r
          [] n = "partitions"  -> np
          [] n = "top_n"       -> tn
          [] OTHER             -> ls[RolePos(qq, RoleOfLimit(qq, n))]]

SecondLimits(qq) == IF Len(Roles(qq)) > 1 THEN LimitValues ELSE {None}

TopNChoices(qq) == IF HasTopN(qq) THEN TopNValues ELSE {None}

(* ------------------------------ state ---------------------------------- *)
Init ==
    /\ q \in Queries
    /\ entry = "none"
    /\ args = <<>>
    /\ p = <<>>
    /\ pc = "entry"
    /\ idx = 1
    /\ i = 0
    /\ log = <<>>
    /\ clock = 0
    /\ start_time = 0
    /\ iter_start = 0
    /\ dur_total = 0
    /\ elapsed = None
    /\ out = None
    /\ err = "none"
    /\ tables = <<>>
    /\ result = <<>>

\* seconds a ctx.sql call or plan.show() takes, and seconds result.show()
\* may take
SqlCost == {1}

ShowCost == 1..MaxDur

\* one call into the engine: the statement reaches it, takes d seconds and
\* either returns (ok) or raises
EngineCall(kind, stmt, ok, d) ==
    /\ log' = Append(log, [kind |-> kind, stmt |-> stmt, ok |-> ok])
    /\ clock' = clock + d

\* variant: the exception of a failed call swallowed
AfterCallSwallow(ok, next) == next

\* where control goes after a call into the engine: an exception is caught
\* nowhere, so it leaves the run function and the script
AfterCall(ok, next) == IF ok THEN next ELSE "failed"

ErrAfterCall(ok) == IF ok THEN "none" ELSE "engine"

\* if target_partitions is not None: ... (the step after the mode directive)
AfterSetMode(pp) ==
    IF ~IsNone(pp["target_partitions"]) THEN "set_partitions" ELSE "create_table"

\* variant: table and view created role by role
AfterBootstrapPerRole(step, k, n) ==
    IF step = "create_table"
    THEN [pc |-> "create_view", idx |-> k]
    ELSE IF k < n THEN [pc |-> "create_table", idx |-> k + 1]
                  ELSE [pc |-> "explain", idx |-> 1]

\* variant: a stage stops one role early
AfterBootstrapShort(step, k, n) ==
    IF k < n - 1
    THEN [pc |-> step, idx |-> k + 1]
    ELSE [pc |-> IF step = "create_table" THEN "create_view" ELSE "explain",
          idx |-> 1]

\* The bootstrap code is straight-line: every CREATE EXTERNAL TABLE call,
\* then every CREATE OR REPLACE VIEW call, then the EXPLAIN.  After call k
\* of n in a stage: the next position and the next role index.
AfterBootstrap(step, k, n) ==
    IF k < n
    THEN [pc |-> step, idx |-> k + 1]
    ELSE [pc |-> IF step = "create_table" THEN "create_view" ELSE "explain",
          idx |-> 1]

\* variant: the plan explained again in every iteration
AfterIterationExplain == "explain"

\* after result.show(n) control returns to the head of the for loop
AfterIteration == "loop"

\* variant: one iteration too many
LoopContinuesInclusive(done, repeat) == done <= repeat

\* for _ in range(repeat): the body runs again while fewer than `repeat`
\* iterations are done
LoopContinues(done, repeat) == done < repeat

\* variant: the timer read from the start of the process
ElapsedFromZero(start, end, repeat) == <<end, repeat>>

\* elapsed = (time.time() - start_time) / repeat, as the fraction <<num, den>>
Elapsed(start, end, repeat) == <<end - start, repeat>>

Abs(n) == IF n < 0 THEN 0 - n ELSE n

\* f"{elapsed:.3f}": sign and thousandths of the float num/den, rounded to
\* nearest with ties to even (a float quotient of 0.0 by a negative is -0.0)
Fmt3(frac) ==
    LET num == frac[1]
        den == frac[2]
        n1000 == 1000 * Abs(num)
        d == Abs(den)
        quo == n1000 \div d
        rem == n1000 % d
        up == 2 * rem > d \/ (2 * rem = d /\ quo % 2 = 1)
    IN  [neg |-> (num < 0) # (den < 0), millis |-> IF up THEN quo + 1 ELSE quo]

(* ----------------------------- actions --------------------------------- *)
\* __main__: parse the command line and call the run function
Main ==
    /\ pc = "entry"
    /\ \E dp \in Prefixes, m \in CliModes, r \in RepeatValues,
          np \in PartitionValues, l1 \in LimitValues,
          l2 \in SecondLimits(q), tn \in TopNChoices(q) :
          LET a == MkArgs(q, dp, m, r, np, <<l1, l2>>, tn)
          IN  /\ args' = a
              /\ p' = Bind(q, CallArgs(q, a))
    /\ entry' = "main"
    /\ pc' = "set_mode"
    /\ UNCHANGED dvars
    /\ UNCHANGED <<q, idx, i, log, clock, start_time, iter_start, dur_total,
                   elapsed, out, err>>

\* the run function called directly, every parameter given
DirectCall ==
    /\ pc = "entry"
    /\ \E dp \in DirectPrefixes, m \in DirectModes, r \in RepeatValues,
          np \in PartitionValues, l1 \in LimitValues,
          l2 \in SecondLimits(q), tn \in TopNChoices(q) :
          p' = Bind(q, <<dp, m, r, np>>
                       \o SubSeq(<<l1, l2>>, 1, Len(Roles(q)))
                       \o (IF HasTopN(q) THEN <<tn>> ELSE <<>>))
    /\ entry' = "direct"
    /\ pc' = "set_mode"
    /\ UNCHANGED dvars
    /\ UNCHANGED <<q, args, idx, i, log, clock, start_time, iter_start,
                   dur_total, elapsed, out, err>>

\* ctx.sql("SET sedona.spatial_join.gpu.enable = ...")
SetMode ==
    /\ pc = "set_mode"
    /\ \E ok \in BOOLEAN, d \in SqlCost :
          /\ EngineCall("mode", ModeDirective(p["mode"]), ok, d)
          /\ pc' = AfterCall(ok, AfterSetMode(p))
          /\ err' = ErrAfterCall(ok)
    /\ UNCHANGED dvars
    /\ UNCHANGED <<q, entry, args, p, idx, i, start_time, iter_start,
                   dur_total, elapsed, out>>

\* ctx.sql(f"SET datafusion.execution.target_partitions = {target_partitions}")
SetPartitions ==
    /\ pc = "set_partitions"
    /\ \E ok \in BOOLEAN, d \in SqlCost :
          /\ EngineCall("partitions", PartitionsDirective(p["target_partitions"]), ok, d)
          /\ pc' = AfterCall(ok, "create_table")
          /\ err' = ErrAfterCall(ok)
    /\ UNCHANGED dvars
    /\ UNCHANGED <<q, entry, args, p, idx, i, start_time, iter_start,
                   dur_total, elapsed, out>>

\* ctx.sql("CREATE EXTERNAL TABLE ..."), one call per role
CreateTable ==
    /\ pc = "create_table"
    /\ \E ok \in BOOLEAN, d \in SqlCost :
          /\ EngineCall("table", TableDirective(p["data_prefix"], Roles(q)[idx]), ok, d)
          /\ pc' = AfterCall(ok, AfterBootstrap("create_table", idx, Len(Roles(q))).pc)
          /\ idx' = IF ok THEN AfterBootstrap("create_table", idx, Len(Roles(q))).idx
                          ELSE idx
          /\ err' = ErrAfterCall(ok)
    /\ UNCHANGED dvars
    /\ UNCHANGED <<q, entry, args, p, i, start_time, iter_start, dur_total,
                   elapsed, out>>

\* ctx.sql("CREATE OR REPLACE VIEW ..."), one call per role
CreateView ==
    /\ pc = "create_view"
    /\ \E ok \in BOOLEAN, d \in SqlCost :
          /\ EngineCall("view",
                        ViewDirective(q, Roles(q)[idx], p[LimitParam(Roles(q)[idx])]),
                        ok, d)
          /\ pc' = AfterCall(ok, AfterBootstrap("create_view", idx, Len(Roles(q))).pc)
          /\ idx' = IF ok THEN AfterBootstrap("create_view", idx, Len(Roles(q))).idx
                          ELSE idx
          /\ err' = ErrAfterCall(ok)
    /\ UNCHANGED dvars
    /\ UNCHANGED <<q, entry, args, p, i, start_time, iter_start, dur_total,
                   elapsed, out>>

\* plan = ctx.sql("EXPLAIN ...")
Explain ==
    /\ pc = "explain"
    /\ \E ok \in BOOLEAN, d \in SqlCost :
          /\ EngineCall("plan", PlanQuery(q, TopN(q, p)), ok, d)
          /\ pc' = AfterCall(ok, "show_plan")
          /\ err' = ErrAfterCall(ok)
    /\ UNCHANGED dvars
    /\ UNCHANGED <<q, entry, args, p, idx, i, start_time, iter_start,
                   dur_total, elapsed, out>>

\* plan.show()
ShowPlan ==
    /\ pc = "show_plan"
    /\ \E ok \in BOOLEAN, d \in SqlCost :
          /\ EngineCall("show_plan", ShowPlanCall, ok, d)
          /\ pc' = AfterCall(ok, "start_timer")
          /\ err' = ErrAfterCall(ok)
    /\ UNCHANGED dvars
    /\ UNCHANGED <<q, entry, args, p, idx, i, start_time, iter_start,
                   dur_total, elapsed, out>>

\* start_time = time.time()
StartTimer ==
    /\ pc = "start_timer"
    /\ start_time' = clock
    /\ pc' = "loop"
    /\ UNCHANGED dvars
    /\ UNCHANGED <<q, entry, args, p, idx, i, log, clock, iter_start,
                   dur_total, elapsed, out, err>>

\* range(repeat) with repeat = None raises TypeError
RangeTypeError ==
    /\ pc = "loop"
    /\ IsNone(p["repeat"])
    /\ pc' = "failed"
    /\ err' = "TypeError"
    /\ UNCHANGED dvars
    /\ UNCHANGED <<q, entry, args, p, idx, i, log, clock, start_time,
                   iter_start, dur_total, elapsed, out>>

\* result = ctx.sql("<exec query>") in the loop body
ExecSql ==
    /\ pc = "loop"
    /\ ~IsNone(p["repeat"])
    /\ LoopContinues(i, Val(p["repeat"]))
    /\ iter_start' = clock
    /\ \E ok \in BOOLEAN, d \in SqlCost :
          /\ EngineCall("exec", ExecQuery(q, TopN(q, p)), ok, d)
          /\ pc' = AfterCall(ok, "show_result")
          /\ err' = ErrAfterCall(ok)
    /\ UNCHANGED dvars
    /\ UNCHANGED <<q, entry, args, p, idx, i, start_time, dur_total,
                   elapsed, out>>

\* result.show(n), the end of one iteration
ShowResult ==
    /\ pc = "show_result"
    /\ \E ok \in BOOLEAN, d \in ShowCost :
          /\ EngineCall("show", ShowResultCall(q), ok, d)
          /\ pc' = AfterCall(ok, AfterIteration)
          /\ err' = ErrAfterCall(ok)
          /\ i' = IF ok THEN i + 1 ELSE i
          /\ dur_total' = IF ok THEN dur_total + (clock + d - iter_start)
                                ELSE dur_total
    /\ UNCHANGED dvars
    /\ UNCHANGED <<q, entry, args, p, idx, start_time, iter_start, elapsed, out>>

\* elapsed = (time.time() - start_time) / repeat, after the loop
ComputeElapsed ==
    /\ pc = "loop"
    /\ ~IsNone(p["repeat"])
    /\ ~LoopContinues(i, Val(p["repeat"]))
    /\ IF Val(p["repeat"]) = 0
       THEN /\ pc' = "failed"
            /\ err' = "ZeroDivisionError"
            /\ elapsed' = elapsed
       ELSE /\ pc' = "print"
            /\ err' = err
            /\ elapsed' = Some(Elapsed(start_time, clock, Val(p["repeat"])))
    /\ UNCHANGED dvars
    /\ UNCHANGED <<q, entry, args, p, idx, i, log, clock, start_time,
                   iter_start, dur_total, out>>

\* print(f"Avg execution time ({mode.upper()} mode): {elapsed:.3f}s"); return 0
PrintElapsed ==
    /\ pc = "print"
    /\ out' = Some([mode |-> Upper(p["mode"]), value |-> Fmt3(Val(elapsed))])
    /\ pc' = "done"
    /\ UNCHANGED dvars
    /\ UNCHANGED <<q, entry, args, p, idx, i, log, clock, start_time,
                   iter_start, dur_total, elapsed, err>>

Next ==
    \/ Main
    \/ DirectCall
    \/ SetMode
    \/ SetPartitions
    \/ CreateTable
    \/ CreateView
    \/ Explain
    \/ ShowPlan
    \/ StartTimer
    \/ RangeTypeError
    \/ ExecSql
    \/ ShowResult
    \/ ComputeElapsed
    \/ PrintElapsed

Spec == Init /\ [][Next]_vars

(* ------------------------ reading the log ------------------------------ *)
LogIdx == 1..Len(log)

Of(kind) == {n \in LogIdx : log[n].kind = kind}

Count(kind) == Cardinality(Of(kind))

Stage(kind) ==
    CASE kind = "mode"       -> 1
      [] kind = "partitions" -> 2
      [] kind = "table"      -> 3
      [] kind = "view"       -> 4
      [] kind = "plan"       -> 5
      [] kind = "show_plan"  -> 5
      [] OTHER               -> 6

Called == pc # "entry"

Terminated == pc \in {"done", "failed"}

(* ------------------------------ claims --------------------------------- *)
\* C1: the directives reach the engine in stage order: the mode directive,
\* then the partition directive, then the table registrations, then the view
\* constructions, then plan inspection, then the timed executions; nothing
\* of an earlier stage follows something of a later stage.
C1_StageOrder ==
    \A m, n \in LogIdx :
        m < n => Stage(log[m].kind) <= Stage(log[n].kind)

C1_Witness ==
    /\ pc = "done"
    /\ Count("partitions") = 1
    /\ Count("table") = 2
    /\ Count("view") = 2
    /\ Count("exec") = 2

\* the option of the command line that means what a parameter means
OptionOf(name) == IF name = "target_partitions" THEN "partitions" ELSE name

\* C2: every entry point hands each parsed option to the parameter of the
\* same meaning (mode, repeat, partitions -> target_partitions, each role's
\* limit, top_n), so the loop runs --repeat times and the partition
\* directive carries the --partitions value.
C2_OptionsReachParams ==
    (Called /\ entry = "main") =>
        /\ \A n \in DOMAIN p : p[n] = args[OptionOf(n)]
        /\ \A n \in Of("partitions") :
               log[n].stmt = PartitionsDirective(args["partitions"])
        /\ \A r \in RoleSet(q) :
               \A v \in Of("view") :
                   log[v].stmt[2] = r \o "_geom" =>
                       log[v].stmt = ViewDirective(q, r, args[LimitParam(r)])
        /\ (pc = "done" /\ Val(args["repeat"]) >= 1) => i = Val(args["repeat"])

\* C3: one mode directive (GPU join on iff the lower-cased mode is 'gpu'),
\* one partition directive iff target_partitions is given, both ahead of
\* every other statement, and no later statement sets either again.
C3_ConfiguredOnce ==
    Called =>
        /\ Count("mode") <= 1
        /\ Count("partitions") <= (IF IsNone(p["target_partitions"]) THEN 0 ELSE 1)
        /\ \A n \in LogIdx : log[n].stmt[1] = "SET" <=> log[n].kind \in {"mode", "partitions"}
        /\ \A n \in Of("mode") :
               /\ n = 1
               /\ log[n].stmt[2] = "sedona.spatial_join.gpu.enable"
               /\ log[n].stmt[4] = "true" <=> Lower(p["mode"]) = "gpu"
               /\ log[n].stmt[4] = "false" <=> Lower(p["mode"]) # "gpu"
        /\ \A n \in Of("partitions") :
               /\ n = 2
               /\ log[n].stmt[2] = "datafusion.execution.target_partitions"
               /\ log[n].stmt[4] = ToString(Val(p["target_partitions"]))
        /\ (\E n \in LogIdx : Stage(log[n].kind) >= 3) =>
               /\ Count("mode") = 1
               /\ Count("partitions") = (IF IsNone(p["target_partitions"]) THEN 0 ELSE 1)
        /\ pc # "set_mode" => Count("mode") = 1

C3_Witness ==
    /\ pc = "done"
    /\ p["mode"] = "GPU"
    /\ ~IsNone(p["target_partitions"])
    /\ Count("partitions") = 1
    /\ Count("exec") >= 1

\* the calls of the timed loop, in the order they reached the engine
TimedCalls == SelectSeq(log, LAMBDA e : e.kind \in {"exec", "show"})

\* C4: with repeat >= 1 and no failing call, the exec query is submitted
\* exactly `repeat` times, one after another, each followed by the display
\* of its result, and every submission carries the same text and the same
\* bound parameters (top_n for Q4).
C4_RepeatSubmissions ==
    (Called /\ ~IsNone(p["repeat"]) /\ Val(p["repeat"]) >= 1) =>
        /\ Count("exec") <= Val(p["repeat"])
        /\ \A k \in 1..Len(TimedCalls) :
               TimedCalls[k].kind = (IF k % 2 = 1 THEN "exec" ELSE "show")
        /\ \A m, n \in Of("exec") : log[m].stmt = log[n].stmt
        /\ HasTopN(q) =>
               \A n \in Of("exec") :
                   \E k \in 1..Len(log[n].stmt) :
                       log[n].stmt[k] = "LIMIT " \o ToString(Val(p["top_n"]))
        /\ pc \in {"print", "done"} =>
               /\ Count("exec") = Val(p["repeat"])
               /\ Count("show") = Val(p["repeat"])
               /\ i = Val(p["repeat"])

C4_Witness ==
    /\ pc = "done"
    /\ q = "Q4"
    /\ Val(p["repeat"]) = 2
    /\ Count("exec") = 2
    /\ Val(p["top_n"]) = 1

\* C5: the mean reported for repeat = N is the sum of the N iteration
\* durations (submission through display) divided by N; the time of
\* configuration, bootstrap and plan inspection is not in it; for N = 1 it
\* is the duration of the one iteration.
C5_MeanOfIterations ==
    (Called /\ ~IsNone(p["repeat"]) /\ Val(p["repeat"]) >= 1 /\ ~IsNone(elapsed)) =>
        LET n == Val(p["repeat"])
            e == Val(elapsed)
        IN  /\ i = n
            /\ e = <<dur_total, n>>
            /\ clock = start_time + dur_total
            /\ ~IsNone(out) => Val(out).value = Fmt3(<<dur_total, n>>)
            /\ (n = 1 /\ ~IsNone(out)) =>
                   Val(out).value = [neg |-> FALSE, millis |-> 1000 * dur_total]

C5_Witness ==
    /\ pc = "done"
    /\ Val(p["repeat"]) = 2
    /\ dur_total = 5
    /\ start_time > 0
    /\ Val(out).value = [neg |-> FALSE, millis |-> 2500]

\* C6: a failing call is the last thing the engine is sent: nothing follows
\* it, it is not sent again, and no mean latency is computed or printed;
\* after a failed table registration no view is constructed, and after a
\* failed timed iteration the remaining iterations are not run.
C6_FailureStops ==
    \A n \in LogIdx :
        ~log[n].ok =>
            /\ n = Len(log)
            /\ pc = "failed"
            /\ err = "engine"
            /\ IsNone(elapsed)
            /\ IsNone(out)
            /\ log[n].kind = "table" => Count("view") = 0
            /\ log[n].kind \in {"exec", "show"} => Count("exec") = i + 1

C6_Witness ==
    /\ pc = "failed"
    /\ Len(log) > 0
    /\ ~log[Len(log)].ok
    /\ log[Len(log)].kind = "show"
    /\ i = 1
    /\ Val(p["repeat"]) = 2

\* the timed loop was reached and every one of its `repeat` iterations
\* completed
AllIterationsDone ==
    /\ \E n \in Of("show_plan") : log[n].ok
    /\ ~IsNone(p["repeat"])
    /\ i = Val(p["repeat"])

\* C7: an invocation ends either with all `repeat` iterations completed and
\* a mean latency printed, or with a failure reported and no latency; never
\* both, never neither; no latency after fewer than `repeat` iterations,
\* and no run that completed all iterations ends without a latency.
C7_TwoOutcomes ==
    Terminated =>
        /\ (AllIterationsDone /\ ~IsNone(out)) # (err # "none" /\ IsNone(out))
        /\ ~IsNone(out) => i >= Val(p["repeat"])
        /\ AllIterationsDone => ~IsNone(out)

\* the plan was shown: the bootstrap is behind
BootstrapDone == pc = "explain" \/ \E n \in LogIdx : Stage(log[n].kind) >= 5

\* C8: the bootstrap registers exactly one external table per required
\* role, at {data_prefix}/{role}/, and constructs exactly one view per
\* required role, every registration before every construction.
C8_OneTableOneViewPerRole ==
    Called =>
        LET n == Len(Roles(q))
            prefix == IF IsNone(p["data_prefix"]) THEN "None"
                      ELSE Val(p["data_prefix"])
        IN  /\ Count("table") <= n
            /\ Count("view") <= n
            /\ \A t \in Of("table"), v \in Of("view") : t < v
            /\ \A k \in 1..n :
                   /\ Cardinality({t \in Of("table") :
                          log[t].stmt[2] = Roles(q)[k] \o "_table"}) <= 1
                   /\ Cardinality({v \in Of("view") :
                          log[v].stmt[2] = Roles(q)[k] \o "_geom"}) <= 1
            /\ \A t \in Of("table") :
                   \E r \in RoleSet(q) :
                       /\ log[t].stmt[1] = "CREATE EXTERNAL TABLE"
                       /\ log[t].stmt[2] = r \o "_table"
                       /\ log[t].stmt[5] = prefix \o "/" \o r \o "/"
            /\ \A v \in Of("view") :
                   \E r \in RoleSet(q) :
                       /\ log[v].stmt[1] = "CREATE OR REPLACE VIEW"
                       /\ log[v].stmt[2] = r \o "_geom"
                       /\ log[v].stmt[5] = "FROM " \o r \o "_table"
            /\ BootstrapDone =>
                   /\ Count("table") = n
                   /\ Count("view") = n

C8_Witness ==
    /\ pc = "done"
    /\ q = "Q11"
    /\ Count("table") = 2
    /\ Count("view") = 2
    /\ p["data_prefix"] = Some("sf1")

\* C9: the plan is explained and shown exactly once, before the first timed
\* execution, and never inside or after the timed loop, whatever `repeat`.
C9_PlanOnce ==
    /\ Count("plan") <= 1
    /\ Count("show_plan") <= 1
    /\ \A n \in Of("plan") : log[n].stmt[1] = "EXPLAIN"
    /\ \A n \in LogIdx : log[n].kind # "plan" => log[n].stmt[1] # "EXPLAIN"
    /\ \A n \in Of("show_plan") : n > 1 /\ log[n - 1].kind = "plan"
    /\ \A m \in Of("plan") \cup Of("show_plan"), n \in Of("exec") \cup Of("show") : m < n
    /\ (pc \in {"start_timer", "loop", "show_result", "print", "done"}
        \/ Count("exec") > 0 \/ err \in {"TypeError", "ZeroDivisionError"}) =>
           /\ Count("plan") = 1
           /\ Count("show_plan") = 1

C9_Witness ==
    /\ pc = "done"
    /\ Count("exec") = 2
    /\ Count("plan") = 1
    /\ Count("show_plan") = 1

\* the view directive the log holds for a role, if any
ViewOf(role) == {n \in Of("view") : log[n].stmt[2] = role \o "_geom"}

\* C10: the view directive of a role has a row-limit clause only if a limit
\* was given for the role; with the limit omitted there is no limit clause
\* at all (never LIMIT 0), so over any source the unlimited view has at
\* least as many rows as the view built with any limit >= 1.
C10_LimitOnlyIfSupplied ==
    Called =>
        \A r \in RoleSet(q) :
            \A v \in ViewOf(r) :
                LET limit == p[LimitParam(r)]
                    clause == log[v].stmt[Len(log[v].stmt)]
                IN  /\ clause # "" => ~IsNone(limit)
                    /\ clause # "" => clause = "LIMIT " \o ToString(Val(limit))
                    /\ IsNone(limit) =>
                           /\ clause = ""
                           /\ \A n \in 0..MaxRows :
                                  /\ ViewRows(log[v].stmt, n) = n
                                  /\ \A k \in 1..(MaxLimit + 1) :
                                         ViewRows(log[v].stmt, n) >=
                                             ViewRows(ViewDirective(q, r, Some(k)), n)

C10_Witness ==
    /\ pc = "done"
    /\ q = "Q2"
    /\ IsNone(p["zone_limit"])
    /\ p["trip_limit"] = Some(1)
    /\ log[Len(log)].kind = "show"
    /\ \E v \in ViewOf("trip") :
           /\ ClauseOf(log[v].stmt) = "LIMIT 1"
           /\ ViewRows(log[v].stmt, MaxRows) = 1
    /\ \E v \in ViewOf("zone") :
           /\ ClauseOf(log[v].stmt) = ""
           /\ ViewRows(log[v].stmt, MaxRows) = MaxRows

\* C15: for each script the statement submitted by plan inspection is the
\* statement submitted in the timed loop (select list, output column names,
\* join, predicate, grouping, ordering, parameters) behind the one leading
\* plan-explain directive.
C15_PlanIsExplainOfExec ==
    \A m \in Of("plan"), n \in Of("exec") :
        log[m].stmt = <<"EXPLAIN">> \o log[n].stmt

\* C16: for every repeat value the entry points accept, 0 and negative
\* values included, a mean-latency line is printed only after at least one
\* timed execution of the query has completed, and the printed mean is not
\* negative.
C16_MeanAfterAnExecution ==
    ~IsNone(out) =>
        /\ \E n \in Of("show") : log[n].ok
        /\ i >= 1
        /\ ~Val(out).value.neg

\* C17: for every role and every limit value the entry points accept, the
\* role's view directive carries the clause LIMIT n exactly when a limit n
\* was given: a limit of 0 gives LIMIT 0, which omission does not.
C17_LimitIffSupplied ==
    Called =>
        \A r \in RoleSet(q) :
            \A v \in ViewOf(r) :
                LET limit == p[LimitParam(r)]
                IN  /\ ~IsNone(limit) =>
                          ClauseOf(log[v].stmt) = "LIMIT " \o ToString(Val(limit))
                    /\ IsNone(limit) => ClauseOf(log[v].stmt) = ""
                    /\ limit = Some(0) => log[v].stmt # ViewDirective(q, r, None)

(* ------------------- the rows behind the timed queries ----------------- *)
(* A geometry is the set of the atoms of the plane it covers; a pickup     *)
(* location is one atom.  Atom 0 is a point without area, every other atom *)
(* a cell of area 1.  A nullable SQL value is None or Some(v); an average  *)
(* is the fraction <<sum, count>>.                                         *)

\* ST_Within(point, polygon)
Within(pt, geom) == pt \in geom

\* ST_Intersects(a, b)
Intersects(a, b) == a \cap b # {}

\* ST_Area(g)
Area(geom) == Cardinality(geom \ {0})

\* the shapes of zones, the places of pickups (3 lies in no zone) and the
\* shapes of buildings in the model
ZoneShapes == {{1}, {2}, {1, 2}}

PickupPlaces == {1, 2, 3}

BuildingShapes == (SUBSET {0, 1, 2}) \ {{}}

\* the zone views of up to MaxRows zones, keys 1, 2, ...
ZoneViews ==
    UNION {{ {[z_zonekey |-> k, z_name |-> "zone" \o ToString(k), geom |-> f[k]] :
               k \in 1..n} : f \in [1..n -> ZoneShapes] } : n \in 1..MaxRows}

\* the building views of up to MaxRows buildings
BuildingViews ==
    UNION {{ {[b_buildingkey |-> k, geom |-> f[k]] : k \in 1..n} :
               f \in [1..n -> BuildingShapes] } : n \in 1..MaxRows}

\* the trip views of q10.py, of up to MaxRows trips: a trip has its key, a
\* pickup at time 1, a dropoff up to MaxDur later, a distance and a pickup
\* place
Q10TripViews ==
    UNION {{ {[t_tripkey |-> k, t_pickuptime |-> 1, t_dropofftime |-> 1 + f[k][1],
               t_distance |-> 10 * k, geom |-> f[k][2]] : k \in 1..n} :
               f \in [1..n -> (1..MaxDur) \X PickupPlaces] } : n \in 0..MaxRows}

\* the trip views of q4.py, of up to MaxRows trips: a trip has its key, a
\* tip of 0 or 1 and a pickup place
Q4TripViews ==
    UNION {{ {[t_tripkey |-> k, t_tip |-> f[k][1], geom |-> f[k][2]] : k \in 1..n} :
               f \in [1..n -> {0, 1} \X PickupPlaces] } : n \in 0..MaxRows}

(* ------------------------------- SQL ----------------------------------- *)
RECURSIVE SetSum(_)
\* SUM over a set of <<row id, value>> pairs
SetSum(pairs) ==
    IF pairs = {} THEN 0
    ELSE LET x == CHOOSE x \in pairs : TRUE
         IN  x[2] + SetSum(pairs \ {x})

\* AVG over the non-null values of a group: NULL for none
Avg(pairs) ==
    IF pairs = {} THEN None ELSE Some(<<SetSum(pairs), Cardinality(pairs)>>)

\* a > b and a = b for fractions with positive denominators
FracGreater(a, b) == a[1] * b[2] > b[1] * a[2]

FracEqual(a, b) == a[1] * b[2] = b[1] * a[2]

\* ORDER BY: the rows of a set in the order of a strict total order, given
\* as the set of the pairs <<a, b>> with a before b
Ordered(rows, before) ==
    [k \in 1..Cardinality(rows) |->
        CHOOSE r \in rows : Cardinality({x \in rows : <<x, r>> \in before}) = k - 1]

\* LIMIT n
Limit(rows, n) == SubSeq(rows, 1, IF n < Len(rows) THEN n ELSE Len(rows))

(* ------------------------------- Q10 ----------------------------------- *)
\* FROM zone_geom z LEFT JOIN trip_geom t ON ST_Within(t.geom, z.geom):
\* a row per zone and trip within it, and a row with a NULL trip for a zone
\* no trip lies within
LeftJoinWithin(zones, trips) ==
    {[z |-> zt[1], t |-> Some(zt[2])] :
        zt \in {zt \in zones \X trips : Within(zt[2].geom, zt[1].geom)}}
    \cup {[z |-> z, t |-> None] :
        z \in {z \in zones : \A t \in trips : ~Within(t.geom, z.geom)}}

\* GROUP BY z.z_zonekey, z.z_name with the select list of Q10; the
\* aggregates skip the NULL trip, COUNT(t.t_tripkey) counts the others
Q10Groups(joined) ==
    {LET grp == {j \in joined : j.z.z_zonekey = g[1] /\ j.z.z_name = g[2]}
         hit == {j \in grp : ~IsNone(j.t)}
     IN  [z_zonekey    |-> g[1],
          pickup_zone  |-> g[2],
          avg_duration |-> Avg({<<Val(j.t).t_tripkey,
                                  Val(j.t).t_dropofftime - Val(j.t).t_pickuptime>> :
                                    j \in hit}),
          avg_distance |-> Avg({<<Val(j.t).t_tripkey, Val(j.t).t_distance>> : j \in hit}),
          num_trips    |-> Some(Cardinality({Val(j.t).t_tripkey : j \in hit}))] :
     g \in {<<j.z.z_zonekey, j.z.z_name>> : j \in joined}}

\* variant: ORDER BY avg_duration DESC, z_zonekey ASC (NULLs first)
Q10BeforeNullsFirst(a, b) ==
    IF IsNone(a.avg_duration) # IsNone(b.avg_duration)
    THEN IsNone(a.avg_duration)
    ELSE IF ~IsNone(a.avg_duration)
            /\ ~FracEqual(Val(a.avg_duration), Val(b.avg_duration))
         THEN FracGreater(Val(a.avg_duration), Val(b.avg_duration))
         ELSE a.z_zonekey < b.z_zonekey

\* ORDER BY avg_duration DESC NULLS LAST, z.z_zonekey ASC
Q10Before(a, b) ==
    IF IsNone(a.avg_duration) # IsNone(b.avg_duration)
    THEN IsNone(b.avg_duration)
    ELSE IF ~IsNone(a.avg_duration)
            /\ ~FracEqual(Val(a.avg_duration), Val(b.avg_duration))
         THEN FracGreater(Val(a.avg_duration), Val(b.avg_duration))
         ELSE a.z_zonekey < b.z_zonekey

\* the rows the timed query of q10.py returns
Q10Result(zones, trips) ==
    LET rows == Q10Groups(LeftJoinWithin(zones, trips))
    IN  Ordered(rows, {ab \in rows \X rows : Q10Before(ab[1], ab[2])})

(* -------------------------------- Q9 ----------------------------------- *)
\* WITH b1 AS (SELECT b_buildingkey AS id, geom FROM building_geom), b2 alike
Q9Side(buildings) == {[id |-> b.b_buildingkey, geom |-> b.geom] : b \in buildings}

\* variant: ON b1.id <> b2.id AND ST_Intersects(b1.geom, b2.geom)
Q9OnDistinct(b1, b2) == b1.id # b2.id /\ Intersects(b1.geom, b2.geom)

\* ON b1.id < b2.id AND ST_Intersects(b1.geom, b2.geom)
Q9On(b1, b2) == b1.id < b2.id /\ Intersects(b1.geom, b2.geom)

\* the pairs CTE
Q9Pairs(buildings) ==
    {[building_1   |-> bb[1].id,
      building_2   |-> bb[2].id,
      area1        |-> Area(bb[1].geom),
      area2        |-> Area(bb[2].geom),
      overlap_area |-> Area(bb[1].geom \cap bb[2].geom)] :
     bb \in {bb \in Q9Side(buildings) \X Q9Side(buildings) : Q9On(bb[1], bb[2])}}

\* a / b: no ratio (None) for b = 0
Divide(a, b) == IF b = 0 THEN None ELSE Some(<<a, b>>)

\* variant: overlap_area / (area1 + area2 - overlap_area), unguarded
IouUnguarded(area1, area2, overlap_area) ==
    Divide(overlap_area, area1 + area2 - overlap_area)

\* CASE WHEN (area1 + area2 - overlap_area) = 0 THEN 1.0
\*      ELSE overlap_area / (area1 + area2 - overlap_area) END
Iou(area1, area2, overlap_area) ==
    IF area1 + area2 - overlap_area = 0
    THEN Some(<<1, 1>>)
    ELSE Divide(overlap_area, area1 + area2 - overlap_area)

\* ORDER BY iou DESC, building_1 ASC, building_2 ASC
Q9Before(a, b) ==
    IF IsNone(a.iou) # IsNone(b.iou)
    THEN IsNone(a.iou)
    ELSE IF ~IsNone(a.iou) /\ ~FracEqual(Val(a.iou), Val(b.iou))
         THEN FracGreater(Val(a.iou), Val(b.iou))
         ELSE \/ a.building_1 < b.building_1
              \/ a.building_1 = b.building_1 /\ a.building_2 < b.building_2

\* the rows the timed query of q9.py returns
Q9Result(buildings) ==
    LET rows == {[building_1   |-> r.building_1,
                  building_2   |-> r.building_2,
                  area1        |-> r.area1,
                  area2        |-> r.area2,
                  overlap_area |-> r.overlap_area,
                  iou          |-> Iou(r.area1, r.area2, r.overlap_area)] :
                 r \in Q9Pairs(buildings)}
    IN  Ordered(rows, {ab \in rows \X rows : Q9Before(ab[1], ab[2])})

(* -------------------------------- Q4 ----------------------------------- *)
\* variant: ORDER BY t.t_tip DESC, t.t_tripkey DESC
Q4RankedKeyDesc(a, b) ==
    \/ a.t_tip > b.t_tip
    \/ a.t_tip = b.t_tip /\ a.t_tripkey > b.t_tripkey

\* ORDER BY t.t_tip DESC, t.t_tripkey ASC
Q4Ranked(a, b) ==
    \/ a.t_tip > b.t_tip
    \/ a.t_tip = b.t_tip /\ a.t_tripkey < b.t_tripkey

\* the trips behind the rows of the subquery top_trips:
\* FROM trip_geom t ORDER BY t.t_tip DESC, t.t_tripkey ASC LIMIT {top_n}
Q4TopTrips(trips, top_n) ==
    Limit(Ordered(trips, {ab \in trips \X trips : Q4Ranked(ab[1], ab[2])}), top_n)

\* ORDER BY trip_count DESC, z.z_zonekey ASC
Q4Before(a, b) ==
    \/ a.trip_count > b.trip_count
    \/ a.trip_count = b.trip_count /\ a.z_zonekey < b.z_zonekey

\* zone_geom z JOIN (SELECT t.geom ...) top_trips ON ST_Within(top_trips.geom,
\* z.geom) GROUP BY z.z_zonekey, z.z_name with COUNT(*): a row per zone some
\* row of top_trips lies within
Q4Groups(zones, top_trips) ==
    LET joined == {zk \in zones \X DOMAIN top_trips :
                      Within(top_trips[zk[2]].geom, zk[1].geom)}
    IN  {[z_zonekey  |-> g[1],
          z_name     |-> g[2],
          trip_count |-> Cardinality({zk \in joined : /\ zk[1].z_zonekey = g[1]
                                                      /\ zk[1].z_name = g[2]})] :
         g \in {<<zk[1].z_zonekey, zk[1].z_name>> : zk \in joined}}

\* what the timed query of q4.py computes: the trips the subquery keeps
\* and the rows returned
Q4Result(zones, trips, top_n) ==
    LET top  == Q4TopTrips(trips, top_n)
        rows == Q4Groups(zones, [k \in DOMAIN top |-> [geom |-> top[k].geom]])
    IN  [top_trips |-> top,
         rows      |-> Ordered(rows, {ab \in rows \X rows : Q4Before(ab[1], ab[2])})]

(* ------------------ the timed loop over known rows --------------------- *)
(* The scripts whose query text orders or pairs rows by key, run on the    *)
(* CPU against views whose rows are known, the bootstrap and the plan      *)
(* inspection behind them: each step is one iteration of the timed loop    *)
(* and leaves the rows the engine returns for the query text.              *)
SqlQueries == {"Q4", "Q9", "Q10"}

\* the rows of the views of a script
ViewContents(qq) ==
    IF qq = "Q9" THEN {[building |-> b] : b \in BuildingViews}
    ELSE {[zone |-> z, trip |-> t] :
             z \in ZoneViews, t \in IF qq = "Q4" THEN Q4TripViews ELSE Q10TripViews}

\* the values of top_n tried: none of the trips to more than there are
SqlTopNChoices(qq) ==
    IF HasTopN(qq) THEN {Some(n) : n \in 0..(MaxRows + 1)} ELSE {None}

InitSql ==
    /\ q \in SqlQueries
    /\ entry = "direct"
    /\ args = <<>>
    /\ \E tn \in SqlTopNChoices(q) :
          p = Bind(q, <<Some("sf1"), "cpu", Some(MaxRepeat), None>>
                      \o [k \in 1..Len(Roles(q)) |-> None]
                      \o (IF HasTopN(q) THEN <<tn>> ELSE <<>>))
    /\ pc = "loop"
    /\ idx = 1
    /\ i = 0
    /\ log = <<>>
    /\ clock = 0
    /\ start_time = 0
    /\ iter_start = 0
    /\ dur_total = 0
    /\ elapsed = None
    /\ out = None
    /\ err = "none"
    /\ tables \in ViewContents(q)
    /\ result = <<>>

\* one iteration of q10.py's timed loop
EvalQ10 ==
    /\ q = "Q10"
    /\ pc = "loop"
    /\ LoopContinues(i, Val(p["repeat"]))
    /\ result' = Q10Result(tables.zone, tables.trip)
    /\ i' = i + 1
    /\ UNCHANGED <<q, entry, args, p, pc, idx, log, clock, start_time,
                   iter_start, dur_total, elapsed, out, err, tables>>

\* a zone of the zone view by its key
ZoneOf(key) == CHOOSE z \in tables.zone : z.z_zonekey = key

\* no trip of the trip view lies within the zone of a result row
NoTrips(row) == \A t \in tables.trip : ~Within(t.geom, ZoneOf(row.z_zonekey).geom)

\* two result rows tie on avg_duration
SameDuration(a, b) ==
    \/ IsNone(a.avg_duration) /\ IsNone(b.avg_duration)
    \/ /\ ~IsNone(a.avg_duration)
       /\ ~IsNone(b.avg_duration)
       /\ FracEqual(Val(a.avg_duration), Val(b.avg_duration))

\* the result of Q10 has every zone once, the zones without trips last and
\* with null means, ties in ascending key order; countOfNone is the count a
\* zone without trips shows
Q10Shape(countOfNone) ==
    /\ Len(result) = Cardinality(tables.zone)
    /\ \A z \in tables.zone :
          Cardinality({k \in DOMAIN result : result[k].z_zonekey = z.z_zonekey}) = 1
    /\ \A k \in DOMAIN result :
          NoTrips(result[k]) =>
             /\ result[k].avg_duration = None
             /\ result[k].avg_distance = None
             /\ result[k].num_trips = countOfNone
    /\ \A m, n \in DOMAIN result :
          m < n /\ NoTrips(result[m]) => NoTrips(result[n])
    /\ \A m, n \in DOMAIN result :
          m < n /\ SameDuration(result[m], result[n])
             => result[m].z_zonekey < result[n].z_zonekey

\* C11 as stated: Q10's result has every zone of the zone view exactly once;
\* a zone without trips has mean duration, mean distance and count all null
\* and comes after every zone with a trip, ties in ascending zone key order.
C11_ZeroTripZoneAllNull == q = "Q10" /\ i >= 1 => Q10Shape(None)

\* C11 amended: Q10's result has every zone of the zone view exactly once;
\* a zone without trips has mean duration and mean distance null and count 0
\* and comes after every zone with a trip, ties in ascending zone key order.
C11_ZeroTripZoneCountZero == q = "Q10" /\ i >= 1 => Q10Shape(Some(0))

\* a zone with a trip sorts before a zone with a smaller key and no trip
C11_Witness ==
    /\ q = "Q10"
    /\ i >= 1
    /\ \E m, n \in DOMAIN result :
          /\ m < n
          /\ ~NoTrips(result[m])
          /\ NoTrips(result[n])
          /\ result[n].z_zonekey < result[m].z_zonekey

\* one iteration of q9.py's timed loop
EvalQ9 ==
    /\ q = "Q9"
    /\ pc = "loop"
    /\ LoopContinues(i, Val(p["repeat"]))
    /\ result' = Q9Result(tables.building)
    /\ i' = i + 1
    /\ UNCHANGED <<q, entry, args, p, pc, idx, log, clock, start_time,
                   iter_start, dur_total, elapsed, out, err, tables>>

\* a building of the building view by its key
BuildingOf(key) == CHOOSE b \in tables.building : b.b_buildingkey = key

\* C12: Q9 never pairs a building with itself and emits at most one of
\* (A,B) and (B,A): every emitted pair has first key strictly less than
\* second key.
C12_PairsOrderedByKey ==
    q = "Q9" /\ i >= 1 =>
       /\ \A k \in DOMAIN result : result[k].building_1 < result[k].building_2
       /\ \A k \in DOMAIN result : result[k].building_1 # result[k].building_2
       /\ \A m, n \in DOMAIN result :
             ~(/\ result[m].building_1 = result[n].building_2
               /\ result[m].building_2 = result[n].building_1)

\* two intersecting buildings with the same geometry are emitted as a pair
C12_Witness ==
    /\ q = "Q9"
    /\ i >= 1
    /\ \E k \in DOMAIN result :
          /\ result[k].building_1 = 1
          /\ result[k].building_2 = 2
          /\ BuildingOf(1).geom = BuildingOf(2).geom

\* C13: in Q9 every emitted pair has a ratio (no division by zero); the
\* ratio of a pair of buildings with identical geometry is exactly 1, and so
\* is the ratio when the sum of the areas less the overlap area is 0.
C13_IouGuarded ==
    q = "Q9" /\ i >= 1 =>
       \A k \in DOMAIN result :
          LET r == result[k]
          IN  /\ ~IsNone(r.iou)
              /\ Val(r.iou)[2] # 0
              /\ BuildingOf(r.building_1).geom = BuildingOf(r.building_2).geom
                    => Val(r.iou)[1] = Val(r.iou)[2]
              /\ r.area1 + r.area2 - r.overlap_area = 0 => r.iou = Some(<<1, 1>>)

\* a pair of identical buildings without area is emitted, its ratio 1
C13_Witness ==
    /\ q = "Q9"
    /\ i >= 1
    /\ \E k \in DOMAIN result :
          /\ BuildingOf(result[k].building_1).geom = BuildingOf(result[k].building_2).geom
          /\ result[k].area1 + result[k].area2 - result[k].overlap_area = 0
          /\ result[k].iou = Some(<<1, 1>>)

\* one iteration of q4.py's timed loop
EvalQ4 ==
    /\ q = "Q4"
    /\ pc = "loop"
    /\ LoopContinues(i, Val(p["repeat"]))
    /\ result' = Q4Result(tables.zone, tables.trip, Val(TopN(q, p)))
    /\ i' = i + 1
    /\ UNCHANGED <<q, entry, args, p, pc, idx, log, clock, start_time,
                   iter_start, dur_total, elapsed, out, err, tables>>

\* the trips Q4's subquery kept in the last iteration
Q4Selected == {result.top_trips[k] : k \in DOMAIN result.top_trips}

\* C14: in every iteration Q4's subquery keeps min(top_n, number of trips)
\* trips of the trip view, each once, in the order tip descending then trip
\* key ascending, and every trip kept comes in that order before every trip
\* left out: of two trips with the same tip the one with the smaller key is
\* the one kept.
C14_TopNSelection ==
    q = "Q4" /\ i >= 1 =>
       LET top   == result.top_trips
           top_n == Val(p["top_n"])
           n     == Cardinality(tables.trip)
       IN  /\ Len(top) = IF top_n < n THEN top_n ELSE n
           /\ Q4Selected \subseteq tables.trip
           /\ Cardinality(Q4Selected) = Len(top)
           /\ \A m, k \in DOMAIN top :
                 m < k => \/ top[m].t_tip > top[k].t_tip
                          \/ /\ top[m].t_tip = top[k].t_tip
                             /\ top[m].t_tripkey < top[k].t_tripkey
           /\ \A s \in Q4Selected, u \in tables.trip \ Q4Selected :
                 \/ s.t_tip > u.t_tip
                 \/ s.t_tip = u.t_tip /\ s.t_tripkey < u.t_tripkey

\* in the second iteration a trip is kept and a trip with the same tip is
\* left out
C14_Witness ==
    /\ q = "Q4"
    /\ i >= 2
    /\ \E s \in Q4Selected, u \in tables.trip \ Q4Selected : s.t_tip = u.t_tip

NextSql == EvalQ4 \/ EvalQ9 \/ EvalQ10

SpecSql == InitSql /\ [][NextSql]_vars

====
